---- MODULE Spec2Model ----
(***************************************************************************)
(* Model of tutorials/Distributed_Attribution.ipynb.                       *)
(*                                                                         *)
(* The notebook holds two flows.  Part 1 splits one 4-row batch among      *)
(* WORLD_SIZE processes, each computes the attribution of its chunk, and   *)
(* rank 0 gathers and concatenates.  Part 2 splits a dataset among the     *)
(* processes with a DistributedSampler, each averages the attribution of   *)
(* its partition, and rank 0 receives the reduced sum and averages it.     *)
(*                                                                         *)
(* Numbers: a float is modelled by an exact fraction <<num, den>>, so the  *)
(* model says nothing about rounding.  The attribution algorithm is a      *)
(* black box that maps an example to a number, one example at a time (ig). *)
(* Devices (USE_CUDA) are left out: a missing device is one of the ways    *)
(* run can raise, which Fail models.                                       *)
(***************************************************************************)
EXTENDS Integers, Sequences, FiniteSets, TLC

\* ------------------------------------------------------------------ bounds
\* Part 1 is tried with WORLD_SIZE in 1..MaxWorld1, Part 2 with WORLD_SIZE in
\* 1..MaxWorld2 and a dataset of 1..MaxN examples.
MaxWorld1 == 4
MaxWorld2 == 3
MaxN == 3

\* -------------------------------------------------------- program constants
\* batch = 1.0 * torch.arange(12).reshape(4,3): four rows.
BatchRows == 4
\* DataLoader(dataset, batch_size=50, sampler=sampler)
batch_size == 50
MASTER_ADDR == "127.0.0.1"
MASTER_PORT == "29500"

Max(a, b) == IF a >= b THEN a ELSE b
Min(a, b) == IF a <= b THEN a ELSE b
CeilDiv(a, b) == (a + b - 1) \div b

Procs == 0 .. (Max(MaxWorld1, MaxWorld2) - 1)

VARIABLES
    part,          \* 1: batch splitting, 2: dataset splitting
    size,          \* size = WORLD_SIZE of the launch cell
    N,             \* len(dataset) of Part 2 (0 in Part 1)
    ig,            \* the attribution of each example (row index -> number)
    batch_chunks,  \* Part 1: batch.chunk(size), each chunk a sequence of row indices
    ppc,           \* the launch cell: "spawn", "join", "done", "error"
    rank,          \* the launch loop's variable: the next rank to spawn
    processes,     \* the launch cell's list of processes, in append order
    joined,        \* how many entries of processes the join loop has joined
    args,          \* per process: the args tuple given to Process(...)
    started,       \* per process: how many times p.start() ran
    pc,            \* per process: where it is in init_process / run
    env,           \* per process: its os.environ rendezvous entries
    group,         \* per process: its process group (rank, world_size), or none
    log,           \* per process: the calls of init_process it made, in order
    attr,          \* per process, Part 1: attr, one number per row of its chunk
    sampled,       \* per process, Part 2: the indices its sampler yields
    total_attr,    \* per process, Part 2: total_attr, a fraction
    sendbuf,       \* the collective: what each group rank has handed in
    output_list,   \* rank 0, Part 1: the gather list
    reduced,       \* rank 0, Part 2: the group ranks whose tensor the reduce added
    printed        \* what was printed, in order: [by |-> rank, value |-> ...]

vars == << part, size, N, ig, batch_chunks, ppc, rank, processes, joined, args,
           started, pc, env, group, log, attr, sampled, total_attr, sendbuf,
           output_list, reduced, printed >>

\* ---------------------------------------------------------------- fractions
Frac(n, d) == << n, d >>
FracAdd(a, b) == << a[1] * b[2] + b[1] * a[2], a[2] * b[2] >>
FracDiv(a, k) == << a[1], a[2] * k >>
FracEq(a, b) == a[1] * b[2] = b[1] * a[2]

\* ----------------------------------------------------------- pure functions
RECURSIVE SeqSum(_)
SeqSum(s) == IF s = << >> THEN 0 ELSE Head(s) + SeqSum(Tail(s))

RECURSIVE CatReversed(_)
\* A plausible slip: the list concatenated from its last tensor to its first.
CatReversed(list) ==
    IF list = << >> THEN << >> ELSE CatReversed(Tail(list)) \o Head(list)

RECURSIVE Cat(_)
\* torch.cat of a list of tensors along dimension 0
Cat(list) == IF list = << >> THEN << >> ELSE Head(list) \o Cat(Tail(list))

\* A plausible slip: torch.split semantics, where the argument is the chunk
\* length and not the number of chunks.
ChunkAsSplit(rows, chunks) ==
    LET n == Len(rows)
        len == Min(chunks, n)
    IN  [ k \in 1 .. CeilDiv(n, len) |->
            SubSeq(rows, (k - 1) * len + 1, Min(k * len, n)) ]

\* Tensor.chunk(chunks) along dimension 0: chunks of ceil(n / chunks) rows,
\* the last one shorter, as many as the rows fill (possibly fewer than chunks).
Chunk(rows, chunks) ==
    LET n == Len(rows)
        chunk_size == CeilDiv(n, chunks)
    IN  [ k \in 1 .. CeilDiv(n, chunk_size) |->
            SubSeq(rows, (k - 1) * chunk_size + 1, Min(k * chunk_size, n)) ]

\* ig.attribute(inp): one attribution per row, each depending on its row only
Attribute(rows) == [ k \in 1 .. Len(rows) |-> ig[rows[k]] ]

\* A plausible slip: no padding, so the partitions differ in length.
SamplerNoPadding(n, num_replicas, r) ==
    LET cnt == IF r < n THEN CeilDiv(n - r, num_replicas) ELSE 0
    IN  [ j \in 1 .. cnt |-> r + (j - 1) * num_replicas ]

\* DistributedSampler(dataset, num_replicas, rank, shuffle=False): the indices
\* 0..n-1, padded cyclically to num_samples * num_replicas, then every
\* num_replicas-th index starting at rank.
DistributedSampler(n, num_replicas, r) ==
    LET num_samples == CeilDiv(n, num_replicas)
        total_size == num_samples * num_replicas
        indices == [ k \in 1 .. total_size |-> (k - 1) % n ]
    IN  [ j \in 1 .. num_samples |-> indices[r + (j - 1) * num_replicas + 1] ]

\* The batches a DataLoader with this sampler yields.
Loader(indices) ==
    [ b \in 1 .. CeilDiv(Len(indices), batch_size) |->
        SubSeq(indices, (b - 1) * batch_size + 1, Min(b * batch_size, Len(indices))) ]

RECURSIVE TotalOver(_)
\* total_attr = 0; for batch in loader: total_attr += attr.sum(dim=0)
TotalOver(batches) ==
    IF batches = << >> THEN 0
    ELSE SeqSum(Attribute(Head(batches))) + TotalOver(Tail(batches))

\* ------------------------------------------------------------------- Init
NoArgs == [ rank |-> -1, size |-> 0, inp_batch |-> << >> ]
NoGroup == [ rank |-> -1, world_size |-> 0, live |-> FALSE ]
NoEnv == [ addr |-> "", port |-> "" ]

\* The attribution tables tried for a dataset: each unit table (one example
\* attributes 1, the others 0; what is printed is linear in the table) and one
\* table that tells every example apart.
AttrTables(n) ==
    { [ i \in 0 .. n - 1 |-> IF i = h THEN 1 ELSE 0 ] : h \in 0 .. n - 1 }
        \cup { [ i \in 0 .. n - 1 |-> i + 1 ] }

\* The attribution tables tried for the batch, whose rows and model are fixed:
\* one that tells the rows apart, and one where rows attribute alike.
BatchTables ==
    { [ i \in 0 .. BatchRows - 1 |-> i + 1 ],
      [ i \in 0 .. BatchRows - 1 |-> IF i = 0 THEN 0 ELSE 1 ] }

batch == [ k \in 1 .. BatchRows |-> k - 1 ]

Init ==
    /\ part \in { 1, 2 }
    /\ \/ /\ part = 1
          /\ size \in 1 .. MaxWorld1
          /\ N = 0
          /\ ig \in BatchTables
          /\ batch_chunks = Chunk(batch, size)
       \/ /\ part = 2
          /\ size \in 1 .. MaxWorld2
          /\ N \in 1 .. MaxN
          /\ ig \in AttrTables(N)
          /\ batch_chunks = << >>
    /\ ppc = "spawn"
    /\ rank = 0
    /\ processes = << >>
    /\ joined = 0
    /\ args = [ p \in Procs |-> NoArgs ]
    /\ started = [ p \in Procs |-> 0 ]
    /\ pc = [ p \in Procs |-> "none" ]
    /\ env = [ p \in Procs |-> NoEnv ]
    /\ group = [ p \in Procs |-> NoGroup ]
    /\ log = [ p \in Procs |-> << >> ]
    /\ attr = [ p \in Procs |-> << >> ]
    /\ sampled = [ p \in Procs |-> << >> ]
    /\ total_attr = [ p \in Procs |-> Frac(0, 1) ]
    /\ sendbuf = << >>
    /\ output_list = << >>
    /\ reduced = << >>
    /\ printed = << >>

\* ------------------------------------------------------------ the launch cell
\* A plausible slip: every process is given rank 0.
ProcessArgsRankZero(r) ==
    [ rank |-> 0, size |-> size,
      inp_batch |-> IF part = 1 THEN batch_chunks[r + 1] ELSE << >> ]

\* args=(rank, size, run, batch_chunks[rank]) in Part 1, args=(rank, size, run)
\* in Part 2
ProcessArgs(r) ==
    [ rank |-> r, size |-> size,
      inp_batch |-> IF part = 1 THEN batch_chunks[r + 1] ELSE << >> ]

\* batch_chunks[rank] raises IndexError when chunk gave fewer than size chunks
IndexError == part = 1 /\ rank + 1 > Len(batch_chunks)

\* One turn of "for rank in range(size)": Process(...), p.start(),
\* processes.append(p).  After the last turn the cell goes on to the join loop.
Spawn ==
    /\ ppc = "spawn"
    /\ rank < size
    /\ ~IndexError
    /\ LET p == Len(processes)
       IN  /\ args' = [ args EXCEPT ![p] = ProcessArgs(rank) ]
           /\ started' = [ started EXCEPT ![p] = @ + 1 ]
           /\ pc' = [ pc EXCEPT ![p] = "env" ]
           /\ processes' = Append(processes, p)
    /\ rank' = rank + 1
    /\ ppc' = IF rank + 1 = size THEN "join" ELSE "spawn"
    /\ UNCHANGED << part, size, N, ig, batch_chunks, joined, env, group, log,
                    attr, sampled, total_attr, sendbuf, output_list, reduced,
                    printed >>

\* The launch loop raises at batch_chunks[rank]: the cell ends there, and the
\* processes it started are neither joined nor stopped.
SpawnIndexError ==
    /\ ppc = "spawn"
    /\ rank < size
    /\ IndexError
    /\ ppc' = "error"
    /\ UNCHANGED << part, size, N, ig, batch_chunks, rank, processes, joined,
                    args, started, pc, env, group, log, attr, sampled,
                    total_attr, sendbuf, output_list, reduced, printed >>

Terminated(p) == pc[p] \in { "exit", "failed" }

\* A retry the notebook does not have: a failed process is started again.
JoinWithRetry ==
    /\ ppc = "join"
    /\ joined < Len(processes)
    /\ LET p == processes[joined + 1]
       IN  /\ Terminated(p)
           /\ IF pc[p] = "failed"
                THEN /\ pc' = [ pc EXCEPT ![p] = "env" ]
                     /\ started' = [ started EXCEPT ![p] = @ + 1 ]
                     /\ log' = [ log EXCEPT ![p] = << >> ]
                     /\ UNCHANGED << joined, ppc >>
                ELSE /\ joined' = joined + 1
                     /\ ppc' = IF joined + 1 = Len(processes) THEN "done" ELSE "join"
                     /\ UNCHANGED << pc, started, log >>
    /\ UNCHANGED << part, size, N, ig, batch_chunks, rank, processes, args,
                    env, group, attr, sampled, total_attr, sendbuf,
                    output_list, reduced, printed >>

\* One turn of "for p in processes: p.join()": returns once p has terminated,
\* however it ended.  After the last turn the cell is finished.
Join ==
    /\ ppc = "join"
    /\ joined < Len(processes)
    /\ Terminated(processes[joined + 1])
    /\ joined' = joined + 1
    /\ ppc' = IF joined + 1 = Len(processes) THEN "done" ELSE "join"
    /\ UNCHANGED << part, size, N, ig, batch_chunks, rank, processes, args,
                    started, pc, env, group, log, attr, sampled, total_attr,
                    sendbuf, output_list, reduced, printed >>

\* ------------------------------------------------------------- init_process
\* A plausible slip: a port of its own for every rank.
SetEnvPortPerRank(p) ==
    /\ pc[p] = "env"
    /\ env' = [ env EXCEPT ![p] =
                  [ addr |-> MASTER_ADDR,
                    port |-> IF args[p].rank = 0 THEN MASTER_PORT ELSE "29501" ] ]
    /\ log' = [ log EXCEPT ![p] = Append(@, "env") ]
    /\ pc' = [ pc EXCEPT ![p] = "init" ]
    /\ UNCHANGED << part, size, N, ig, batch_chunks, ppc, rank, processes,
                    joined, args, started, group, attr, sampled, total_attr,
                    sendbuf, output_list, reduced, printed >>

\* os.environ['MASTER_ADDR'] = '127.0.0.1'; os.environ['MASTER_PORT'] = '29500'
SetEnv(p) ==
    /\ pc[p] = "env"
    /\ env' = [ env EXCEPT ![p] = [ addr |-> MASTER_ADDR, port |-> MASTER_PORT ] ]
    /\ log' = [ log EXCEPT ![p] = Append(@, "env") ]
    /\ pc' = [ pc EXCEPT ![p] = "init" ]
    /\ UNCHANGED << part, size, N, ig, batch_chunks, ppc, rank, processes,
                    joined, args, started, group, attr, sampled, total_attr,
                    sendbuf, output_list, reduced, printed >>

\* dist.init_process_group(backend, rank=rank, world_size=size)
InitProcessGroup(p) ==
    /\ pc[p] = "init"
    /\ group' = [ group EXCEPT ![p] =
                    [ rank |-> args[p].rank, world_size |-> args[p].size,
                      live |-> TRUE ] ]
    /\ log' = [ log EXCEPT ![p] = Append(@, "init_process_group") ]
    /\ pc' = [ pc EXCEPT ![p] = "fn" ]
    /\ UNCHANGED << part, size, N, ig, batch_chunks, ppc, rank, processes,
                    joined, args, started, env, attr, sampled, total_attr,
                    sendbuf, output_list, reduced, printed >>

\* dist.destroy_process_group(), then the process exits
DestroyProcessGroup(p) ==
    /\ pc[p] = "destroy"
    /\ group' = [ group EXCEPT ![p].live = FALSE ]
    /\ log' = [ log EXCEPT ![p] = Append(@, "destroy_process_group") ]
    /\ pc' = [ pc EXCEPT ![p] = "exit" ]
    /\ UNCHANGED << part, size, N, ig, batch_chunks, ppc, rank, processes,
                    joined, args, started, env, attr, sampled, total_attr,
                    sendbuf, output_list, reduced, printed >>

\* fn raises, in its computation (no device, no model file), in its collective
\* (a timeout) or on rank 0 after it: nothing in init_process catches it, so the
\* process ends there.
Fail(p) ==
    /\ pc[p] \in { "fn", "wait", "print" }
    /\ pc' = [ pc EXCEPT ![p] = "failed" ]
    /\ UNCHANGED << part, size, N, ig, batch_chunks, ppc, rank, processes,
                    joined, args, started, env, group, log, attr, sampled,
                    total_attr, sendbuf, output_list, reduced, printed >>

\* ------------------------------------------------------------ the collectives
\* The group ranks that have entered the collective so far
Entered == { sendbuf[k].rank : k \in 1 .. Len(sendbuf) }

\* A collective call returns once every rank of the group has entered it.
Complete(p) ==
    /\ Len(sendbuf) = group[p].world_size
    /\ Entered = 0 .. (group[p].world_size - 1)

\* What gather leaves in gather_list: slot r holds the tensor of group rank r
GatherList ==
    [ r \in 1 .. Len(sendbuf) |->
        sendbuf[CHOOSE k \in 1 .. Len(sendbuf) : sendbuf[k].rank = r - 1].tensor ]

\* A plausible slip: the reduce leaves the destination's own tensor out.
ReduceSumOthers(dst) ==
    LET F[k \in 0 .. Len(sendbuf)] ==
            IF k = 0 THEN Frac(0, 1)
            ELSE IF sendbuf[k].rank = dst THEN F[k - 1]
            ELSE FracAdd(F[k - 1], sendbuf[k].tensor)
    IN  F[Len(sendbuf)]

\* What reduce(op=SUM) leaves in the tensor of rank dst: the sum of the tensors
\* of all ranks
ReduceSum(dst) ==
    LET F[k \in 0 .. Len(sendbuf)] ==
            IF k = 0 THEN Frac(0, 1) ELSE FracAdd(F[k - 1], sendbuf[k].tensor)
    IN  F[Len(sendbuf)]

\* A plausible slip: the rank test left out.
AnyRank(p) == TRUE

\* if rank == 0:
RankIsZero(p) == args[p].rank = 0

\* -------------------------------------------------------------- run, Part 1
\* model = ToyModel(); ig = IntegratedGradients(model);
\* attr = ig.attribute(inp_batch, target=0)
Run1Attribute(p) ==
    /\ part = 1
    /\ pc[p] = "fn"
    /\ attr' = [ attr EXCEPT ![p] = Attribute(args[p].inp_batch) ]
    /\ log' = [ log EXCEPT ![p] = Append(@, "fn") ]
    /\ pc' = [ pc EXCEPT ![p] = "enter" ]
    /\ UNCHANGED << part, size, N, ig, batch_chunks, ppc, rank, processes,
                    joined, args, started, env, group, sampled, total_attr,
                    sendbuf, output_list, reduced, printed >>

\* A plausible slip: only rank 0 calls gather.
Run1GatherEnterRootOnly(p) ==
    /\ part = 1
    /\ pc[p] = "enter"
    /\ group[p].live
    /\ IF args[p].rank = 0
         THEN /\ sendbuf' = Append(sendbuf, [ rank |-> group[p].rank, tensor |-> attr[p] ])
              /\ output_list' = [ r \in 1 .. args[p].size |-> [ k \in 1 .. Len(attr[p]) |-> 0 ] ]
              /\ log' = [ log EXCEPT ![p] = Append(@, "gather") ]
              /\ pc' = [ pc EXCEPT ![p] = "wait" ]
         ELSE /\ pc' = [ pc EXCEPT ![p] = "destroy" ]
              /\ UNCHANGED << sendbuf, output_list, log >>
    /\ UNCHANGED << part, size, N, ig, batch_chunks, ppc, rank, processes,
                    joined, args, started, env, group, attr, sampled,
                    total_attr, reduced, printed >>

\* rank 0: output_list = [torch.zeros_like(attr) for _ in range(size)];
\* every rank: the call of torch.distributed.gather
Run1GatherEnter(p) ==
    /\ part = 1
    /\ pc[p] = "enter"
    /\ group[p].live
    /\ sendbuf' = Append(sendbuf, [ rank |-> group[p].rank, tensor |-> attr[p] ])
    /\ output_list' =
         IF RankIsZero(p)
           THEN [ r \in 1 .. args[p].size |-> [ k \in 1 .. Len(attr[p]) |-> 0 ] ]
           ELSE output_list
    /\ log' = [ log EXCEPT ![p] = Append(@, "gather") ]
    /\ pc' = [ pc EXCEPT ![p] = "wait" ]
    /\ UNCHANGED << part, size, N, ig, batch_chunks, ppc, rank, processes,
                    joined, args, started, env, group, attr, sampled,
                    total_attr, reduced, printed >>

\* gather needs every tensor to have the shape of the buffers of gather_list
ShapesMatch ==
    \A k \in 1 .. Len(sendbuf) : \A r \in 1 .. Len(output_list) :
        Len(sendbuf[k].tensor) = Len(output_list[r])

\* gather returns: on rank 0 with gather_list filled
Run1GatherDone(p) ==
    /\ part = 1
    /\ pc[p] = "wait"
    /\ Complete(p)
    /\ ShapesMatch
    /\ output_list' = IF RankIsZero(p) THEN GatherList ELSE output_list
    /\ pc' = [ pc EXCEPT ![p] = IF RankIsZero(p) THEN "print" ELSE "destroy" ]
    /\ UNCHANGED << part, size, N, ig, batch_chunks, ppc, rank, processes,
                    joined, args, started, env, group, log, attr, sampled,
                    total_attr, sendbuf, reduced, printed >>

\* combined_attr = torch.cat(output_list); print(combined_attr)
Run1Print(p) ==
    /\ part = 1
    /\ pc[p] = "print"
    /\ printed' = Append(printed, [ by |-> args[p].rank, value |-> Cat(output_list) ])
    /\ pc' = [ pc EXCEPT ![p] = "destroy" ]
    /\ UNCHANGED << part, size, N, ig, batch_chunks, ppc, rank, processes,
                    joined, args, started, env, group, log, attr, sampled,
                    total_attr, sendbuf, output_list, reduced >>

\* -------------------------------------------------------------- run, Part 2
\* total_attr summed over the loader's batches, then
\* total_attr /= len(sampler)
PartitionMean(indices) == Frac(TotalOver(Loader(indices)), Len(indices))

\* dataset, net, sampler, loader, ig, the loop over the loader and the
\* division by len(sampler)
Run2Attribute(p) ==
    /\ part = 2
    /\ pc[p] = "fn"
    /\ sampled' = [ sampled EXCEPT ![p] = DistributedSampler(N, args[p].size, args[p].rank) ]
    /\ total_attr' = [ total_attr EXCEPT ![p] = PartitionMean(sampled'[p]) ]
    /\ log' = [ log EXCEPT ![p] = Append(@, "fn") ]
    /\ pc' = [ pc EXCEPT ![p] = "enter" ]
    /\ UNCHANGED << part, size, N, ig, batch_chunks, ppc, rank, processes,
                    joined, args, started, env, group, attr, sendbuf,
                    output_list, reduced, printed >>

\* the call of torch.distributed.reduce(total_attr, dst=0)
Run2ReduceEnter(p) ==
    /\ part = 2
    /\ pc[p] = "enter"
    /\ group[p].live
    /\ sendbuf' = Append(sendbuf, [ rank |-> group[p].rank, tensor |-> total_attr[p] ])
    /\ log' = [ log EXCEPT ![p] = Append(@, "reduce") ]
    /\ pc' = [ pc EXCEPT ![p] = "wait" ]
    /\ UNCHANGED << part, size, N, ig, batch_chunks, ppc, rank, processes,
                    joined, args, started, env, group, attr, sampled,
                    total_attr, output_list, reduced, printed >>

\* reduce returns: on the destination, group rank 0, with the sum in total_attr
Run2ReduceDone(p) ==
    /\ part = 2
    /\ pc[p] = "wait"
    /\ Complete(p)
    /\ IF group[p].rank = 0
         THEN /\ total_attr' = [ total_attr EXCEPT ![p] = ReduceSum(0) ]
              /\ reduced' = [ k \in 1 .. Len(sendbuf) |-> sendbuf[k].rank ]
         ELSE UNCHANGED << total_attr, reduced >>
    /\ pc' = [ pc EXCEPT ![p] = IF RankIsZero(p) THEN "print" ELSE "destroy" ]
    /\ UNCHANGED << part, size, N, ig, batch_chunks, ppc, rank, processes,
                    joined, args, started, env, group, log, attr, sampled,
                    sendbuf, output_list, printed >>

\* total_attr = total_attr / size; print("Average Attributions:", total_attr)
Run2Print(p) ==
    /\ part = 2
    /\ pc[p] = "print"
    /\ total_attr' = [ total_attr EXCEPT ![p] = FracDiv(@, args[p].size) ]
    /\ printed' = Append(printed, [ by |-> args[p].rank, value |-> total_attr'[p] ])
    /\ pc' = [ pc EXCEPT ![p] = "destroy" ]
    /\ UNCHANGED << part, size, N, ig, batch_chunks, ppc, rank, processes,
                    joined, args, started, env, group, log, attr, sampled,
                    sendbuf, output_list, reduced >>

\* ------------------------------------------------------- the specifications
ParentStep == Spawn \/ SpawnIndexError \/ Join

\* The steps of a process that does not raise
ProcStep(p) ==
    \/ SetEnv(p)
    \/ InitProcessGroup(p)
    \/ Run1Attribute(p)
    \/ Run1GatherEnter(p)
    \/ Run1GatherDone(p)
    \/ Run1Print(p)
    \/ Run2Attribute(p)
    \/ Run2ReduceEnter(p)
    \/ Run2ReduceDone(p)
    \/ Run2Print(p)
    \/ DestroyProcessGroup(p)

Next ==
    \/ ParentStep
    \/ \E p \in Procs : ProcStep(p)
    \/ \E p \in Procs : Fail(p)

Spec == Init /\ [][Next]_vars

\* The operating system runs every process that can take a step.
FairSpec ==
    /\ Init
    /\ [][Next]_vars
    /\ WF_vars(ParentStep)
    /\ \A p \in Procs : WF_vars(ProcStep(p))

\* ------------------------------------------------------------------ claims
Created == { processes[k] : k \in 1 .. Len(processes) }
ProcOfRank(r) == CHOOSE p \in Created : args[p].rank = r
HasRank(r) == \E p \in Created : args[p].rank = r
Called(p, what) == \E k \in 1 .. Len(log[p]) : log[p][k] = what
IsPrefix(s, t) == Len(s) <= Len(t) /\ s = SubSeq(t, 1, Len(s))
Failure == ppc = "error" \/ \E p \in Procs : pc[p] = "failed"
RootExited == HasRank(0) /\ pc[ProcOfRank(0)] = "exit"

\* print(ig.attribute(batch, target=0)) on one process, on the whole batch
SingleProcess == Attribute(batch)

\* The calls init_process makes on a process that runs to its end
InitProcessCalls ==
    << "env", "init_process_group", "fn",
       IF part = 1 THEN "gather" ELSE "reduce", "destroy_process_group" >>

\* C1: Part 1, WORLD_SIZE in {1, 2, 4}: whatever rank 0 prints is, row for row
\* and in the batch's row order, the attribution one process computes on the
\* whole batch, and once the rank 0 process has exited it has printed it.
C1_GatherEqualsSingleProcess ==
    (part = 1 /\ size \in { 1, 2, 4 }) =>
        /\ \A k \in 1 .. Len(printed) : printed[k].value = SingleProcess
        /\ RootExited => Len(printed) = 1

C1_Witness ==
    /\ part = 1
    /\ size = 4
    /\ ig = [ i \in 0 .. BatchRows - 1 |-> i + 1 ]
    /\ Len(printed) = 1
    /\ printed[1].value = << 1, 2, 3, 4 >>

\* C4: Part 1, WORLD_SIZE in {1, 2, 4}: chunk gives exactly size chunks of
\* 4 / size rows each, chunk k holding the rows (k-1) * 4/size .. k * 4/size - 1
\* in order (contiguous, disjoint, covering rows 0..3), so the launch loop never
\* raises at batch_chunks[rank], the process of rank r is given chunk r, and
\* every tensor handed to the gather has the shape of rank 0's buffers.
C4_ChunksPartitionBatch ==
    (part = 1 /\ size \in { 1, 2, 4 }) =>
        /\ Len(batch_chunks) = size
        /\ \A k \in 1 .. Len(batch_chunks) :
              batch_chunks[k] =
                  [ j \in 1 .. (BatchRows \div size) |->
                      (k - 1) * (BatchRows \div size) + j - 1 ]
        /\ ppc # "error"
        /\ \A p \in Created : args[p].inp_batch = batch_chunks[args[p].rank + 1]
        /\ ShapesMatch
        /\ \A r \in 1 .. Len(output_list) :
              Len(output_list[r]) = BatchRows \div size

C4_Witness ==
    /\ part = 1
    /\ size = 2
    /\ Len(sendbuf) = 2
    /\ Len(output_list) = 2
    /\ batch_chunks = << << 0, 1 >>, << 2, 3 >> >>

\* C5: Part 1: the combined attribution is printed at most once and by rank 0
\* only; at the print every rank 0..size-1 has computed its attribution and
\* entered the gather; once gather has returned on rank 0, slot r of the gather
\* list holds the attribution of rank r; a rank 0 process that has exited has
\* printed exactly once.
C5_PrintOnceByRankZeroAfterGather ==
    part = 1 =>
        /\ Len(printed) <= 1
        /\ \A k \in 1 .. Len(printed) : printed[k].by = 0
        /\ printed # << >> =>
              \A r \in 0 .. size - 1 :
                  /\ HasRank(r)
                  /\ Called(ProcOfRank(r), "fn")
                  /\ Called(ProcOfRank(r), "gather")
        /\ (HasRank(0) /\ pc[ProcOfRank(0)] \in { "print", "destroy", "exit" }) =>
              /\ Len(output_list) = size
              /\ \A r \in 0 .. size - 1 :
                    HasRank(r) /\ output_list[r + 1] = attr[ProcOfRank(r)]
        /\ RootExited => Len(printed) = 1

C5_Witness ==
    /\ part = 1
    /\ size = 4
    /\ Len(printed) = 1
    /\ printed[1].by = 0
    /\ \E p \in Created : args[p].rank # 0 /\ pc[p] = "wait"

\* The total attribution and the number of the examples the samplers yielded,
\* an example counted as often as it was yielded
SampledTotal ==
    LET F[k \in 0 .. Len(processes)] ==
            IF k = 0 THEN 0
            ELSE F[k - 1] + SeqSum([ j \in 1 .. Len(sampled[processes[k]]) |->
                                       ig[sampled[processes[k]][j]] ])
    IN  F[Len(processes)]

SampledCount ==
    LET F[k \in 0 .. Len(processes)] ==
            IF k = 0 THEN 0 ELSE F[k - 1] + Len(sampled[processes[k]])
    IN  F[Len(processes)]

\* C6: Part 2: the average is printed at most once and by rank 0 only; at the
\* print the reduce has added exactly one tensor of each rank 0..size-1; the
\* printed value is the mean over all size * len(sampler) sampled examples; a
\* rank 0 process that has exited has printed exactly once.
C6_PrintsMeanOfSampledExamples ==
    part = 2 =>
        /\ Len(printed) <= 1
        /\ \A k \in 1 .. Len(printed) :
              /\ printed[k].by = 0
              /\ Len(reduced) = size
              /\ \A r \in 0 .. size - 1 : \E j \in 1 .. Len(reduced) : reduced[j] = r
              /\ SampledCount = size * CeilDiv(N, size)
              /\ FracEq(printed[k].value, Frac(SampledTotal, SampledCount))
        /\ RootExited => Len(printed) = 1

C6_Witness ==
    /\ part = 2
    /\ size = 2
    /\ N = 3
    /\ ig = [ i \in 0 .. 2 |-> i + 1 ]
    /\ Len(printed) = 1
    /\ Len(reduced) = 2
    /\ FracEq(printed[1].value, Frac(7, 4))

\* The sum of the attributions of the dataset's examples, each counted once
DatasetTotal ==
    LET F[k \in 0 .. N] == IF k = 0 THEN 0 ELSE F[k - 1] + ig[k - 1]
    IN  F[N]

\* C2: Part 2: the value rank 0 prints is the global average attribution: the
\* sum of the attributions of the dataset's examples, each counted exactly
\* once, divided by the number N of examples.
C2_PrintsGlobalAverage ==
    part = 2 =>
        \A k \in 1 .. Len(printed) : FracEq(printed[k].value, Frac(DatasetTotal, N))

\* The processes that have built their sampler
Sampling == { p \in Created : Called(p, "fn") }

\* C3: Part 2: every rank's partition has ceil(N / size) indices, all of them
\* indices of the dataset; once every rank has built its sampler, every index
\* 0..N-1 is in some partition, some example is yielded twice when N is not a
\* multiple of size, and when N is a multiple of size no index is yielded twice,
\* so the partitions are disjoint.
C3_SamplerPartitions ==
    part = 2 =>
        /\ \A p \in Sampling :
              /\ Len(sampled[p]) = CeilDiv(N, size)
              /\ \A j \in 1 .. Len(sampled[p]) : sampled[p][j] \in 0 .. N - 1
        /\ Cardinality(Sampling) = size =>
              LET Slots == { << p, j >> \in Sampling \X (1 .. CeilDiv(N, size)) : TRUE }
                  Twice == \E a, b \in Slots :
                               a # b /\ sampled[a[1]][a[2]] = sampled[b[1]][b[2]]
              IN  /\ \A i \in 0 .. N - 1 : \E a \in Slots : sampled[a[1]][a[2]] = i
                  /\ N % size # 0 => Twice
                  /\ N % size = 0 => ~Twice

C3_Witness ==
    /\ part = 2
    /\ size = 2
    /\ N = 3
    /\ Cardinality(Sampling) = 2
    /\ sampled[ProcOfRank(0)] = << 0, 2 >>
    /\ sampled[ProcOfRank(1)] = << 1, 0 >>

\* C7: the launch cell creates one process per rank: the processes created so
\* far have the ranks 0, 1, ... in creation order, pairwise distinct, each with
\* the size argument WORLD_SIZE and each started exactly once; when the join
\* loop runs, exactly WORLD_SIZE processes with the ranks 0..WORLD_SIZE-1 have
\* been started; the cell is finished only when every one of them has been
\* joined and has terminated.
C7_OneProcessPerRank ==
    /\ Len(processes) <= size
    /\ \A k \in 1 .. Len(processes) :
          /\ args[processes[k]].rank = k - 1
          /\ args[processes[k]].size = size
          /\ started[processes[k]] = 1
          /\ pc[processes[k]] # "none"
    /\ \A k, j \in 1 .. Len(processes) :
          k # j => /\ processes[k] # processes[j]
                   /\ args[processes[k]].rank # args[processes[j]].rank
    /\ \A p \in Procs \ Created : started[p] = 0 /\ pc[p] = "none"
    /\ (ppc \in { "join", "done" } \/ joined > 0) =>
          /\ Len(processes) = size
          /\ { args[p].rank : p \in Created } = 0 .. size - 1
    /\ \A k \in 1 .. joined : Terminated(processes[k])
    /\ ppc = "done" => joined = size /\ \A p \in Created : Terminated(p)

C7_Witness ==
    /\ ppc = "done"
    /\ size = 3
    /\ part = 2
    /\ Cardinality(Created) = 3
    /\ \A p \in Created : pc[p] = "exit"

\* C8: on every process the calls of init_process are made in the order set
\* MASTER_ADDR/MASTER_PORT, init_process_group, fn (with its one collective),
\* destroy_process_group, each at most once and all of them by a process that
\* has exited; a process is in its group exactly between init_process_group and
\* destroy_process_group, so its collective is called inside; the group has
\* the rank and the size the process was given; all processes that have set the
\* rendezvous entries have set the same address and port.
C8_SetupRunCleanupOrder ==
    \A p \in Created :
        /\ IsPrefix(log[p], InitProcessCalls)
        /\ pc[p] = "exit" => log[p] = InitProcessCalls
        /\ group[p].live <=>
              (Called(p, "init_process_group") /\ ~Called(p, "destroy_process_group"))
        /\ Called(p, "init_process_group") =>
              /\ group[p].rank = args[p].rank
              /\ group[p].world_size = size
        /\ \A q \in Created :
              (Called(p, "env") /\ Called(q, "env")) =>
                  /\ env[p] = env[q]
                  /\ env[p].addr # ""
                  /\ env[p].port # ""

C8_Witness ==
    /\ part = 1
    /\ size = 2
    /\ \A p \in Created : log[p] = InitProcessCalls
    /\ Cardinality(Created) = 2

\* C9: no process is started twice, no call of init_process is made twice on a
\* process, and a process on which fn raised has not run destroy_process_group
\* (its group is still there) and rank 0's result is printed only by a rank 0
\* process that did not fail before its print; the parent joins a failed
\* process like any other.
C9_NoRetryNoRecovery ==
    /\ \A p \in Procs :
          /\ started[p] <= 1
          /\ \A k, j \in 1 .. Len(log[p]) : k # j => log[p][k] # log[p][j]
          /\ pc[p] = "failed" =>
                /\ ~Called(p, "destroy_process_group")
                /\ Called(p, "init_process_group")
                /\ group[p].live
                /\ \A k \in 1 .. Len(printed) : printed[k].by # args[p].rank
    /\ \A k \in 1 .. joined : pc[processes[k]] \in { "exit", "failed" }

C9_Witness ==
    /\ joined >= 2
    /\ pc[processes[1]] = "failed"
    /\ pc[processes[2]] = "exit"
    /\ printed = << >>

\* Every created process has exited after all the calls of init_process, its
\* one collective among them, and the launch cell is finished.
AllDone ==
    /\ ppc = "done"
    /\ Cardinality(Created) = size
    /\ \A p \in Created : pc[p] = "exit" /\ log[p] = InitProcessCalls

\* C10: under fair scheduling every run in which nothing fails (no process
\* raises in fn, the launch loop does not raise) reaches the state where every
\* process has called its collective exactly once, has run
\* destroy_process_group and has exited, and every join has returned.
C10_TerminatesAbsentFailures == <>(Failure \/ AllDone)

C10_Witness ==
    /\ AllDone
    /\ ~Failure
    /\ size = 2
    /\ part = 1
====
